---- MODULE Spec2Model ----
(***************************************************************************)
(* Model of the lyric ingestion and curation scripts of lty_agent:         *)
(*   song/index.js                      the two Ingestor scripts           *)
(*   song/clean_lyrics.js               batch pass song_lyrics -> lyrics   *)
(*   dataset/song/clean_existing_lyrics.js   in-place batch pass           *)
(*                                                                         *)
(* Text is a sequence of one-character strings.  Characters outside ASCII  *)
(* are written as tokens: "FW(" and "FW)" are the full-width brackets,     *)
(* "S1" "S2" are the two halves of the instrumental notice.                *)
(***************************************************************************)
EXTENDS Integers, Sequences, FiniteSets, TLC

VARIABLES
    variant,        \* which Ingestor of song/index.js runs: "A" (l.1-209) or "B" (l.211-401)
    pc,             \* position of the Ingestor
    page,           \* loop variable `page`
    lastPage,       \* initialPage + pageCount
    firstPage,      \* initialPage
    songs,          \* tracks of the current page still to be handled
    cur,            \* result of the lyric fetch in flight
    existingSongs,  \* the Set existingSongs
    fileExists,     \* lyrics.jsonl exists
    store,          \* lyrics.jsonl, a sequence of lines
    totalSongs,     \* totalSongsFound / totalSongs
    newSongs,       \* totalNewSongsAdded / newSongs
    skippedSongs,   \* skippedSongs (B)
    hist,           \* calls issued so far, in order
    catalog,        \* what the external catalog answered for each page so far
    wfails,         \* store writes that failed so far
    runs,           \* runs started so far
    script,         \* which batch script runs: "existing" or "convert"
    bpc,            \* position of the batch script
    inputFile,      \* song_lyrics.jsonl (input of clean_lyrics.js)
    out,            \* processedLinesArray / processedLines
    skippedLines,   \* skippedLines of clean_existing_lyrics.js
    wpos,           \* lines of the output already written by writeFileSync
    passes,         \* batch passes completed
    snap,           \* lyrics.jsonl when the current run or pass started
    arg,            \* argument of the pure function under check
    res,            \* its result
    ppc             \* "in" before the function is applied, then its name

ingestVars == <<variant, pc, page, lastPage, firstPage, songs, cur, existingSongs,
                totalSongs, newSongs, skippedSongs, hist, catalog, wfails, runs>>
fileVars == <<fileExists, store>>
batchVars == <<script, bpc, inputFile, out, skippedLines, wpos, passes, snap>>
pureVars == <<arg, res, ppc>>
vars == <<ingestVars, fileVars, batchVars, pureVars>>

-----------------------------------------------------------------------------
(* Bounds *)
MaxPieces == 3          \* pieces concatenated into a raw lyric text
MaxPageCount == 2       \* largest pageCount of a run
MaxPageLen == 2         \* most tracks a search returns for one page
MaxWriteFailures == 1   \* most store writes that fail in one behaviour
MaxRuns == 2            \* runs of the Ingestor over the same page range
MaxLines == 4           \* most lines of a file a batch script reads
MaxPasses == 2          \* runs of a batch script, one after the other
MaxTitleLen == 5        \* longest title handed to cleanSongTitle
MaxRecords == 3         \* most records handed to merge
MaxTextLines == 3       \* most lines of a text handed to extract

-----------------------------------------------------------------------------
(* Text helpers: JavaScript String methods *)

Digits == {"0", "1", "2", "3", "4", "5", "6", "7", "8", "9"}
WhiteSpace == {" ", "\n"}

RECURSIVE Concat(_)
Concat(ss) == IF ss = <<>> THEN <<>> ELSE Head(ss) \o Concat(Tail(ss))

RECURSIVE TrimStart(_)
TrimStart(s) ==
    IF s # <<>> /\ Head(s) \in WhiteSpace THEN TrimStart(Tail(s)) ELSE s

RECURSIVE TrimEnd(_)
TrimEnd(s) ==
    IF s # <<>> /\ s[Len(s)] \in WhiteSpace THEN TrimEnd(SubSeq(s, 1, Len(s) - 1)) ELSE s

\* String.prototype.trim
Trim(s) == TrimEnd(TrimStart(s))

\* String.prototype.includes
Includes(s, sub) ==
    \E i \in 1..(Len(s) - Len(sub) + 1) : SubSeq(s, i, i + Len(sub) - 1) = sub

\* A regular expression without repetition, as the list of its expansions; in an
\* expansion "d" stands for \d and every other character for itself.
MatchesAt(s, i, tpl) ==
    /\ i + Len(tpl) - 1 <= Len(s)
    /\ \A k \in 1..Len(tpl) :
          IF tpl[k] = "d" THEN s[i + k - 1] \in Digits ELSE s[i + k - 1] = tpl[k]

\* Length of the match of one of the expansions at position i, 0 when none.
MatchLen(s, i, tpls) ==
    IF \E t \in tpls : MatchesAt(s, i, t)
    THEN Len(CHOOSE t \in tpls : MatchesAt(s, i, t))
    ELSE 0

\* s.replace(/re/g, ''): leftmost matches, left to right, not rescanned.
RECURSIVE RemoveAll(_, _, _)
RemoveAll(s, i, tpls) ==
    IF i > Len(s) THEN <<>>
    ELSE LET n == MatchLen(s, i, tpls)
         IN IF n > 0 THEN RemoveAll(s, i + n, tpls)
            ELSE <<s[i]>> \o RemoveAll(s, i + 1, tpls)

\* s.split('\n')
RECURSIVE SplitLines(_, _)
SplitLines(s, acc) ==
    IF s = <<>> THEN <<acc>>
    ELSE IF Head(s) = "\n" THEN <<acc>> \o SplitLines(Tail(s), <<>>)
    ELSE SplitLines(Tail(s), Append(acc, Head(s)))

\* lines.join('\n')
RECURSIVE JoinLines(_)
JoinLines(ls) ==
    IF ls = <<>> THEN <<>>
    ELSE IF Len(ls) = 1 THEN ls[1]
    ELSE ls[1] \o <<"\n">> \o JoinLines(Tail(ls))

RECURSIVE MapTrim(_)
MapTrim(ls) == IF ls = <<>> THEN <<>> ELSE <<Trim(Head(ls))>> \o MapTrim(Tail(ls))

RECURSIVE FilterNonEmpty(_)
FilterNonEmpty(ls) ==
    IF ls = <<>> THEN <<>>
    ELSE IF Len(Head(ls)) > 0 THEN <<Head(ls)>> \o FilterNonEmpty(Tail(ls))
    ELSE FilterNonEmpty(Tail(ls))

\* Number of consecutive "\n" starting at position i.
RECURSIVE NewlineRun(_, _)
NewlineRun(s, i) ==
    IF i <= Len(s) /\ s[i] = "\n" THEN 1 + NewlineRun(s, i + 1) ELSE 0

\* s.replace(/\n{3,}/g, '\n\n')
RECURSIVE CollapseNewlines(_, _)
CollapseNewlines(s, i) ==
    IF i > Len(s) THEN <<>>
    ELSE LET n == NewlineRun(s, i)
         IN IF n >= 3 THEN <<"\n", "\n">> \o CollapseNewlines(s, i + n)
            ELSE <<s[i]>> \o CollapseNewlines(s, i + 1)

-----------------------------------------------------------------------------
(* Timing tags *)

TagMS == <<"[", "d", "d", ":", "d", "d", "]">>                                  \* [mm:ss]
TagMSf2 == <<"[", "d", "d", ":", "d", "d", ".", "d", "d", "]">>                 \* [mm:ss.ff]
TagMSf3 == <<"[", "d", "d", ":", "d", "d", ".", "d", "d", "d", "]">>            \* [mm:ss.fff]
TagMSSf2 == <<"[", "d", "d", ":", "d", "d", ":", "d", "d", ".", "d", "d", "]">> \* [mm:ss:ss.ff]
TagMSSf3 == <<"[", "d", "d", ":", "d", "d", ":", "d", "d", ".", "d", "d", "d", "]">>

\* /\[\d{2}:\d{2}(\.\d{2,3})?\]/
TimeTagRegex1 == {TagMS, TagMSf2, TagMSf3}
\* /\[\d{2}:\d{2}(:\d{2})?\.\d{2,3}?\]/
TimeTagRegex2 == {TagMSf2, TagMSf3, TagMSSf2, TagMSSf3}

\* '纯音乐，请欣赏'
Sentinel == <<"S1", "S2">>

\* song/index.js, first script
cleanLyricsA(lyrics) ==
    IF lyrics = <<>> THEN <<>>
    ELSE CollapseNewlines(Trim(RemoveAll(lyrics, 1, TimeTagRegex1)), 1)

\* song/index.js, second script
cleanLyricsB(lyrics) ==
    IF lyrics = <<>> THEN <<>>
    ELSE JoinLines(FilterNonEmpty(MapTrim(
            SplitLines(RemoveAll(lyrics, 1, TimeTagRegex2), <<>>))))

\* dataset/song/clean_existing_lyrics.js
cleanLyricsExisting(lyrics) ==
    IF lyrics = <<>> THEN <<>>
    ELSE CollapseNewlines(Trim(RemoveAll(lyrics, 1, TimeTagRegex1)), 1)

\* song/clean_lyrics.js
cleanLyricsConvert(lyrics) ==
    IF lyrics = <<>> THEN <<>>
    ELSE JoinLines(FilterNonEmpty(MapTrim(
            SplitLines(RemoveAll(lyrics, 1, TimeTagRegex2), <<>>))))

-----------------------------------------------------------------------------
(* Title normalisation *)

\* First position after i holding `close`, 0 if a "\n" or the end comes first
\* (`.` does not match a line break).
RECURSIVE CloseAt(_, _, _)
CloseAt(s, i, close) ==
    IF i > Len(s) \/ s[i] = "\n" THEN 0
    ELSE IF s[i] = close THEN i
    ELSE CloseAt(s, i + 1, close)

\* title.replace(/\(.*?\)|（.*?）/g, '')
RECURSIVE RemoveBrackets(_, _)
RemoveBrackets(s, i) ==
    IF i > Len(s) THEN <<>>
    ELSE LET j == IF s[i] = "(" THEN CloseAt(s, i + 1, ")")
                  ELSE IF s[i] = "FW(" THEN CloseAt(s, i + 1, "FW)")
                  ELSE 0
         IN IF j > 0 THEN RemoveBrackets(s, j + 1)
            ELSE <<s[i]>> \o RemoveBrackets(s, i + 1)

cleanSongTitle(title) == Trim(RemoveBrackets(title, 1))

-----------------------------------------------------------------------------
(* JSON values and the lines of lyrics.jsonl *)

\* A JSON value of the p_masters / artist field: a string, an array, a number,
\* or nothing (undefined, null).
JStr(x) == [t |-> "str", s |-> x, a |-> <<>>]
JArr(xs) == [t |-> "arr", s |-> "", a |-> xs]
JNum(x) == [t |-> "num", s |-> x, a |-> <<>>]
JNone == [t |-> "none", s |-> "", a |-> <<>>]

\* Array.prototype.flat(): one level.
RECURSIVE Flat(_)
Flat(xs) ==
    IF xs = <<>> THEN <<>>
    ELSE (IF Head(xs).t = "arr" THEN Head(xs).a ELSE <<Head(xs)>>) \o Flat(Tail(xs))

\* .filter(item => typeof item === 'string')
RECURSIVE FilterStrings(_)
FilterStrings(xs) ==
    IF xs = <<>> THEN <<>>
    ELSE (IF Head(xs).t = "str" THEN <<Head(xs)>> ELSE <<>>) \o FilterStrings(Tail(xs))

\* JavaScript truthiness of a JSON value.
Truthy(v) ==
    CASE v.t = "none" -> FALSE
      [] v.t = "str" -> v.s # ""
      [] v.t = "num" -> v.s # "0"
      [] OTHER -> TRUE

\* A line of the file: a JSON object, text that JSON.parse rejects, the JSON text
\* `null` (parses, but is no object), or a blank line.
RecLine(title, pm, lyr) ==
    [k |-> "rec", song_title |-> title, p_masters |-> pm, lyrics |-> lyr]
BadLine == [k |-> "bad", song_title |-> <<>>, p_masters |-> JNone, lyrics |-> <<>>]
NullLine == [k |-> "null", song_title |-> <<>>, p_masters |-> JNone, lyrics |-> <<>>]
BlankLine == [k |-> "blank", song_title |-> <<>>, p_masters |-> JNone, lyrics |-> <<>>]

\* JSON.stringify(songData, null, 0): one line; line breaks in strings are escaped.
Stringify(songData) ==
    RecLine(songData.song_title, songData.p_masters, songData.lyrics)

\* JSON.parse(line.trim()) followed by the first property read: throws on text
\* that is not JSON and on `null`.
ParseThrows(line) == line.k \in {"bad", "null"}
Parse(line) ==
    [song_title |-> line.song_title, p_masters |-> line.p_masters, lyrics |-> line.lyrics]

\* content.split('\n').filter(line => line.trim()) and `if (!line.trim()) continue`
RECURSIVE NonBlank(_)
NonBlank(ls) ==
    IF ls = <<>> THEN <<>>
    ELSE (IF Head(ls).k = "blank" THEN <<>> ELSE <<Head(ls)>>) \o NonBlank(Tail(ls))

-----------------------------------------------------------------------------
(* The external catalog *)

Inst(tpl) == [k \in 1..Len(tpl) |-> IF tpl[k] = "d" THEN "0" ELSE tpl[k]]

Song(id, name, artist) == [id |-> id, name |-> name, artist |-> artist]

\* The tracks the search can return.
Tracks == {
    Song(1, <<"a">>, JStr("P")),
    Song(2, <<"a", " ", "(", "b", ")">>, JArr(<<JArr(<<JStr("P")>>), JStr("Q"), JStr("P")>>)),
    Song(3, <<"c">>, JArr(<<JStr("Q")>>)),
    Song(4, <<"d">>, JNone),
    Song(5, <<"e">>, JStr("P")),
    Song(6, <<"f">>, JArr(<<JStr("P"), JStr("Q")>>)) }

\* What meting.lyric(id) answers: it throws, or returns {lyric: ...}.
LyricResponse(id) ==
    CASE id = 1 -> [throws |-> FALSE,
                    lyric |-> Inst(TagMSf2) \o <<"x", "\n">> \o Inst(TagMSSf2) \o <<"y">>]
      [] id = 2 -> [throws |-> FALSE, lyric |-> Inst(TagMS) \o <<"z">>]
      [] id = 3 -> [throws |-> FALSE, lyric |-> Inst(TagMSf2) \o <<" ">> \o Inst(TagMSf3)]
      [] id = 4 -> [throws |-> FALSE, lyric |-> Inst(TagMSf2) \o Sentinel]
      [] id = 5 -> [throws |-> TRUE, lyric |-> <<>>]
      [] OTHER -> [throws |-> FALSE, lyric |-> <<>>]

-----------------------------------------------------------------------------
(* The Ingestor, song/index.js *)

Pages == firstPage..(lastPage - 1)

NoResult == [null |-> TRUE, success |-> FALSE, id |-> 0, song_title |-> <<>>,
             p_masters |-> JNone, lyrics |-> <<>>]

Event(e, n) == [e |-> e, n |-> n]

RECURSIVE SeqToSet(_)
SeqToSet(xs) == IF xs = <<>> THEN {} ELSE {Head(xs)} \cup SeqToSet(Tail(xs))

\* loadExistingSongs of the first script: the cleaned titles of the parseable lines.
RECURSIVE loadExistingSongsA(_)
loadExistingSongsA(lines) ==
    IF lines = <<>> THEN {}
    ELSE LET line == Head(lines)
             rest == loadExistingSongsA(Tail(lines))
         IN IF line.k = "blank" \/ ParseThrows(line) THEN rest
            ELSE IF Parse(line).song_title # <<>>
                 THEN {cleanSongTitle(Parse(line).song_title)} \cup rest
                 ELSE rest

\* loadExistingSongs of the second script: the titles as they are.
RECURSIVE loadExistingSongsB(_)
loadExistingSongsB(lines) ==
    IF lines = <<>> THEN {}
    ELSE LET line == Head(lines)
             rest == loadExistingSongsB(Tail(lines))
         IN IF line.k = "blank" \/ ParseThrows(line) THEN rest
            ELSE IF Parse(line).song_title # <<>>
                 THEN {Parse(line).song_title} \cup rest
                 ELSE rest

\* getSongLyric of the first script; null for a failed fetch, no lyric, or the notice.
getSongLyricA(song) ==
    LET r == LyricResponse(song.id)
    IN IF r.throws THEN NoResult
       ELSE IF r.lyric # <<>> /\ Trim(r.lyric) # <<>> /\ ~Includes(r.lyric, Sentinel)
       THEN [null |-> FALSE, success |-> TRUE, id |-> song.id,
             song_title |-> song.name,
             p_masters |->
                IF Truthy(song.artist)
                THEN IF song.artist.t = "arr"
                     THEN JArr(FilterStrings(Flat(song.artist.a)))
                     ELSE JArr(<<JStr(song.artist.s)>>)
                ELSE JArr(<<>>),
             lyrics |-> cleanLyricsA(r.lyric)]
       ELSE NoResult

\* getSongLyric of the second script: {success, lyric}.
getSongLyricB(song) ==
    LET r == LyricResponse(song.id)
    IN IF r.throws THEN NoResult
       ELSE IF r.lyric # <<>> /\ Trim(r.lyric) # <<>>
       THEN [null |-> FALSE, success |-> TRUE, id |-> song.id,
             song_title |-> song.name, p_masters |-> song.artist, lyrics |-> r.lyric]
       ELSE NoResult

\* songs.filter(song => !existingSongs.has(cleanSongTitle(song.name)))
RECURSIVE FilterNew(_, _)
FilterNew(ss, existing) ==
    IF ss = <<>> THEN <<>>
    ELSE (IF cleanSongTitle(Head(ss).name) \in existing THEN <<>> ELSE <<Head(ss)>>)
         \o FilterNew(Tail(ss), existing)

UsedIds == UNION {{t.id : t \in SeqToSet(catalog[p].songs)} : p \in DOMAIN catalog}

\* What meting.search can answer for a page not asked before: it throws, or a list
\* of tracks no earlier page listed.
SearchResults ==
    {[st |-> "fail", songs |-> <<>>]} \cup
    {[st |-> "ok", songs |-> ss] :
        ss \in {q \in UNION {[1..n -> {t \in Tracks : t.id \notin UsedIds}] : n \in 0..MaxPageLen} :
                   \A i, j \in DOMAIN q : i # j => q[i] # q[j]}}

\* The answer for `page`: the catalog answers a repeated search as before.
SearchAnswers ==
    IF catalog[page].st = "unknown" THEN SearchResults ELSE {catalog[page]}

\* A loop that stays on the page whose search failed.
AfterFailedPageRetry == page

\* Lines 182-185 and 378-381: the catch of a page logs and `continue`s.
AfterFailedPage == page + 1

\* Where the loop goes once the tracks `rest` of the page are left.
AfterSong(rest) ==
    /\ songs' = rest
    /\ pc' = IF rest = <<>> THEN "search" ELSE "fetch"
    /\ page' = IF rest = <<>> THEN page + 1 ELSE page

\* Lines 129-136: load the keys, create the file when it is missing.  A failing
\* writeFileSync rejects searchLuoTianyiSongs and main() exits with code 1.
StartA ==
    /\ pc = "start" /\ variant = "A"
    /\ existingSongs' = IF fileExists THEN loadExistingSongsA(store) ELSE {}
    /\ \/ /\ fileExists
          /\ pc' = "search"
          /\ UNCHANGED <<fileVars, wfails>>
       \/ /\ ~fileExists
          /\ fileExists' = TRUE /\ store' = <<>>
          /\ pc' = "search"
          /\ UNCHANGED wfails
       \/ /\ ~fileExists /\ wfails < MaxWriteFailures
          /\ wfails' = wfails + 1
          /\ pc' = "fatal"
          /\ UNCHANGED fileVars
    /\ UNCHANGED <<variant, page, lastPage, firstPage, songs, cur, totalSongs, newSongs,
                   skippedSongs, hist, catalog, runs, batchVars, pureVars>>

\* Lines 308: load the keys.
StartB ==
    /\ pc = "start" /\ variant = "B"
    /\ existingSongs' = IF fileExists THEN loadExistingSongsB(store) ELSE {}
    /\ pc' = "search"
    /\ UNCHANGED <<variant, page, lastPage, firstPage, songs, cur, totalSongs, newSongs,
                   skippedSongs, hist, catalog, wfails, runs, fileVars, batchVars, pureVars>>

\* Lines 143-159 and 182-185: one search of `page`; a failure goes on to the next page.
SearchA ==
    /\ pc = "search" /\ variant = "A" /\ page < lastPage
    /\ \E r \in SearchAnswers :
          /\ catalog' = [catalog EXCEPT ![page] = r]
          /\ hist' = Append(hist, Event("search", page))
          /\ IF r.st = "fail"
             THEN /\ page' = AfterFailedPage
                  /\ UNCHANGED <<pc, songs, totalSongs>>
             ELSE /\ totalSongs' = totalSongs + Len(r.songs)
                  /\ AfterSong(FilterNew(r.songs, existingSongs))
    /\ UNCHANGED <<variant, lastPage, firstPage, cur, existingSongs, newSongs, skippedSongs,
                   wfails, runs, fileVars, batchVars, pureVars>>

\* Line 166: the lyric fetch of the next new song of the page.
FetchA ==
    /\ pc = "fetch" /\ variant = "A" /\ songs # <<>>
    /\ cur' = getSongLyricA(Head(songs))
    /\ hist' = Append(hist, Event("fetch", Head(songs).id))
    /\ pc' = "write"
    /\ UNCHANGED <<variant, page, lastPage, firstPage, songs, existingSongs, totalSongs,
                   newSongs, skippedSongs, catalog, wfails, runs, fileVars, batchVars,
                   pureVars>>

\* Lines 168-176 with writeLyricToFile (108-122): the write is skipped for empty
\* lyrics, a failing appendFileSync is logged only; the counter and the key follow.
WriteA ==
    /\ pc = "write" /\ variant = "A"
    /\ IF cur.null
       THEN UNCHANGED <<fileVars, wfails, newSongs, hist>>
       ELSE /\ newSongs' = newSongs + 1
            /\ IF cur.lyrics = <<>>
               THEN UNCHANGED <<fileVars, wfails, hist>>
               ELSE \/ /\ store' = Append(store, Stringify(cur))
                       /\ fileExists' = TRUE
                       /\ hist' = Append(hist, Event("append", cur.id))
                       /\ UNCHANGED wfails
                    \/ /\ wfails < MaxWriteFailures
                       /\ wfails' = wfails + 1
                       /\ hist' = Append(hist, Event("writefail", cur.id))
                       /\ UNCHANGED fileVars
    /\ existingSongs' = existingSongs \cup {cleanSongTitle(Head(songs).name)}
    /\ pc' = "delay"
    /\ UNCHANGED <<variant, page, lastPage, firstPage, songs, cur, totalSongs, skippedSongs,
                   catalog, runs, batchVars, pureVars>>

\* Lines 178-180: the 500 ms delay after every new song.
DelayA ==
    /\ pc = "delay" /\ variant = "A"
    /\ hist' = Append(hist, Event("delay", Head(songs).id))
    /\ cur' = NoResult
    /\ AfterSong(Tail(songs))
    /\ UNCHANGED <<variant, lastPage, firstPage, existingSongs, totalSongs, newSongs,
                   skippedSongs, catalog, wfails, runs, fileVars, batchVars, pureVars>>

\* Lines 316-330 and 378-381.
SearchB ==
    /\ pc = "search" /\ variant = "B" /\ page < lastPage
    /\ \E r \in SearchAnswers :
          /\ catalog' = [catalog EXCEPT ![page] = r]
          /\ hist' = Append(hist, Event("search", page))
          /\ IF r.st = "fail" \/ r.songs = <<>>
             THEN /\ page' = AfterFailedPage
                  /\ UNCHANGED <<pc, songs, totalSongs>>
             ELSE /\ totalSongs' = totalSongs + Len(r.songs)
                  /\ AfterSong(r.songs)
    /\ UNCHANGED <<variant, lastPage, firstPage, cur, existingSongs, newSongs, skippedSongs,
                   wfails, runs, fileVars, batchVars, pureVars>>

\* Lines 336-341: a song whose title is in existingSongs is skipped.
SkipB ==
    /\ pc = "fetch" /\ variant = "B" /\ songs # <<>>
    /\ Head(songs).name \in existingSongs
    /\ skippedSongs' = skippedSongs + 1
    /\ AfterSong(Tail(songs))
    /\ UNCHANGED <<variant, lastPage, firstPage, cur, existingSongs, totalSongs, newSongs,
                   hist, catalog, wfails, runs, fileVars, batchVars, pureVars>>

\* Line 344: the lyric fetch.
FetchB ==
    /\ pc = "fetch" /\ variant = "B" /\ songs # <<>>
    /\ Head(songs).name \notin existingSongs
    /\ cur' = getSongLyricB(Head(songs))
    /\ hist' = Append(hist, Event("fetch", Head(songs).id))
    /\ pc' = "write"
    /\ UNCHANGED <<variant, page, lastPage, firstPage, songs, existingSongs, totalSongs,
                   newSongs, skippedSongs, catalog, wfails, runs, fileVars, batchVars,
                   pureVars>>

\* Lines 346-376: clean, drop the instrumental, append.  A failing appendFileSync
\* is caught by the page's catch (378-381), which goes on to the next page.
WriteB ==
    /\ pc = "write" /\ variant = "B"
    /\ LET cleanedLyric == cleanLyricsB(cur.lyrics)
       IN IF ~cur.success \/ Includes(cleanedLyric, Sentinel)
          THEN /\ AfterSong(Tail(songs))
               /\ cur' = NoResult
               /\ UNCHANGED <<fileVars, wfails, newSongs, hist, existingSongs>>
          ELSE \/ /\ store' = Append(store, Stringify([cur EXCEPT !.lyrics = cleanedLyric]))
                  /\ fileExists' = TRUE
                  /\ hist' = Append(hist, Event("append", cur.id))
                  /\ newSongs' = newSongs + 1
                  /\ existingSongs' = existingSongs \cup {Head(songs).name}
                  /\ pc' = "delay"
                  /\ UNCHANGED <<wfails, songs, page, cur>>
               \/ /\ wfails < MaxWriteFailures
                  /\ wfails' = wfails + 1
                  /\ hist' = Append(hist, Event("writefail", cur.id))
                  /\ AfterSong(<<>>)
                  /\ cur' = NoResult
                  /\ UNCHANGED <<fileVars, newSongs, existingSongs>>
    /\ UNCHANGED <<variant, lastPage, firstPage, totalSongs, skippedSongs, catalog, runs,
                   batchVars, pureVars>>

\* Lines 372-373: the 500 ms delay after a saved song.
DelayB ==
    /\ pc = "delay" /\ variant = "B"
    /\ hist' = Append(hist, Event("delay", Head(songs).id))
    /\ cur' = NoResult
    /\ AfterSong(Tail(songs))
    /\ UNCHANGED <<variant, lastPage, firstPage, existingSongs, totalSongs, newSongs,
                   skippedSongs, catalog, wfails, runs, fileVars, batchVars, pureVars>>

\* Lines 188-191 and 384-389: the loop is over, the report is printed.
Finish ==
    /\ pc = "search" /\ page >= lastPage
    /\ pc' = "done"
    /\ UNCHANGED <<variant, page, lastPage, firstPage, songs, cur, existingSongs,
                   totalSongs, newSongs, skippedSongs, hist, catalog, wfails, runs,
                   fileVars, batchVars, pureVars>>

-----------------------------------------------------------------------------
(* One run of the Ingestor *)

StartPages == {2}

StoredSong == RecLine(<<"a">>, JArr(<<JStr("P")>>), <<"x">>)

\* lyrics.jsonl before the run: missing, or a saved song and a damaged line.
InitialStores ==
    {[exists |-> FALSE, lines |-> <<>>],
     [exists |-> TRUE, lines |-> <<StoredSong, BadLine>>]}

BatchIdle ==
    /\ script = "none" /\ bpc = "idle" /\ inputFile = <<>> /\ out = <<>>
    /\ skippedLines = 0 /\ wpos = 0 /\ passes = 0

PureIdle == arg = <<>> /\ res = <<>> /\ ppc = "idle"

IngestIdle ==
    /\ variant = "none" /\ pc = "idle" /\ page = 0 /\ lastPage = 0 /\ firstPage = 0
    /\ songs = <<>> /\ cur = NoResult /\ existingSongs = {}
    /\ totalSongs = 0 /\ newSongs = 0 /\ skippedSongs = 0 /\ hist = <<>>
    /\ catalog = <<>> /\ wfails = 0 /\ runs = 0

Init ==
    /\ variant \in {"A", "B"}
    /\ pc = "start"
    /\ firstPage \in StartPages
    /\ \E pageCount \in 0..MaxPageCount : lastPage = firstPage + pageCount
    /\ page = firstPage
    /\ songs = <<>> /\ cur = NoResult /\ existingSongs = {}
    /\ \E f \in InitialStores : fileExists = f.exists /\ store = f.lines
    /\ totalSongs = 0 /\ newSongs = 0 /\ skippedSongs = 0
    /\ hist = <<>>
    /\ catalog = [p \in Pages |-> [st |-> "unknown", songs |-> <<>>]]
    /\ wfails = 0 /\ runs = 1
    /\ snap = store
    /\ BatchIdle /\ PureIdle

Next ==
    \/ StartA \/ SearchA \/ FetchA \/ WriteA \/ DelayA
    \/ StartB \/ SearchB \/ SkipB \/ FetchB \/ WriteB \/ DelayB
    \/ Finish

Spec == Init /\ [][Next]_vars

-----------------------------------------------------------------------------
(* Properties of one run *)

IsSearch(ev) == ev.e = "search"
IsWriteAttempt(ev) == ev.e \in {"append", "writefail"}

TrackOf(id) == CHOOSE t \in Tracks : t.id = id

\* The lines the run has appended so far.
AppendedLines == SubSeq(store, Len(snap) + 1, Len(store))

HasLineFor(id) == \E k \in DOMAIN AppendedLines : AppendedLines[k].song_title = TrackOf(id).name

\* Text that would be rejected: empty, empty once the tags are stripped and the
\* text is trimmed, or holding the instrumental notice.
Unusable(lyric) ==
    \/ lyric = <<>>
    \/ Trim(RemoveAll(lyric, 1, TimeTagRegex1 \cup TimeTagRegex2)) = <<>>
    \/ Includes(lyric, Sentinel)

\* C1: while a lyric fetch is in flight, the normalized title of its track is not
\* in existingSongs (no fetch, hence no append, for a key that is already known).
C1_NoFetchForKnownKey ==
    pc = "write" => cleanSongTitle(Head(songs).name) \notin existingSongs

\* C2: every track that reached the append has its line in the store as soon as
\* the Ingestor has gone on to anything else (a delay, a fetch, a search, the end).
C2_AcceptedArePersisted ==
    \A i \in DOMAIN hist :
        (IsWriteAttempt(hist[i]) /\ (i < Len(hist) \/ pc = "done")) => HasLineFor(hist[i].n)

\* C4: no line is appended for an unusable lyric text, and no appended line has
\* empty lyrics.
C4_NoRecordForUnusableLyrics ==
    /\ \A i \in DOMAIN hist :
          hist[i].e = "append" => ~Unusable(LyricResponse(hist[i].n).lyric)
    /\ \A k \in DOMAIN AppendedLines : AppendedLines[k].lyrics # <<>>

SearchedPages == SelectSeq(hist, IsSearch)

C7_WriteFailureIsFatal ==
    \A i \in DOMAIN hist :
        hist[i].e = "writefail" => (i = Len(hist) /\ pc # "done")

\* A producers value as the records are to hold it: an array of strings, none
\* empty, none twice.
FlatDistinctStrings(pm) ==
    /\ pm.t = "arr"
    /\ \A i \in DOMAIN pm.a : pm.a[i].t = "str" /\ pm.a[i].s # ""
    /\ \A i, j \in DOMAIN pm.a : i # j => pm.a[i] # pm.a[j]

\* C12: every line the Ingestor has appended and every record a batch pass is
\* about to write back has p_masters as a flat array of distinct non-empty strings.
C12_ProducersFlatDistinct ==
    /\ \A k \in DOMAIN AppendedLines : FlatDistinctStrings(AppendedLines[k].p_masters)
    /\ \A k \in DOMAIN out : FlatDistinctStrings(out[k].p_masters)

\* The line the run builds for the track `id` (index.js l.93-97 and l.356-363).
RecordOf(id) ==
    IF variant = "A" THEN Stringify(getSongLyricA(TrackOf(id)))
    ELSE LET r == getSongLyricB(TrackOf(id))
         IN Stringify([r EXCEPT !.lyrics = cleanLyricsB(r.lyrics)])

IsAppend(ev) == ev.e = "append"

IsRecordLine(line) == line.k = "rec"

\* Where the search listed the track: <<page, index in the page>>.
PosOf(id) ==
    CHOOSE pk \in {<<p, k>> : p \in DOMAIN catalog, k \in 1..MaxPageLen + 1} :
        /\ pk[2] \in DOMAIN catalog[pk[1]].songs
        /\ catalog[pk[1]].songs[pk[2]].id = id

Before(a, b) == a[1] < b[1] \/ (a[1] = b[1] /\ a[2] < b[2])

\* The events `evs` are in the order of the scan, and the store is what it was at
\* the start of the run followed by their records.
StoreIsStartPlus(evs) ==
    /\ store = snap \o [i \in 1..Len(evs) |-> RecordOf(evs[i].n)]
    /\ \A i, j \in DOMAIN evs : i < j => Before(PosOf(evs[i].n), PosOf(evs[j].n))

\* The lines whose append returned follow the content of the start, in scan order.
StoreIsStartPlusAppended == StoreIsStartPlus(SelectSeq(hist, IsAppend))

\* C13: at every point of a run the store is its content at the start of the run
\* followed by the records of the tracks accepted so far, in the order of the scan.
C13_StoreIsStartPlusAccepted ==
    pc # "write" => StoreIsStartPlus(SelectSeq(hist, IsWriteAttempt))

\* C16: every key in existingSongs is the normalized title of a record that is in
\* the store.
C16_KeysArePersisted ==
    \A key \in existingSongs :
        \E k \in DOMAIN store :
            IsRecordLine(store[k]) /\ cleanSongTitle(store[k].song_title) = key

\* C17: the number of new songs a completed run reports is the number of lines
\* the run has appended.
C17_ReportedCountIsAppended ==
    pc = "done" => newSongs = Len(AppendedLines)

\* C18: between two lyric fetches of a run that follow one another there is a
\* delay.
C18_DelayBetweenFetches ==
    \A i, j \in DOMAIN hist :
        (i < j /\ hist[i].e = "fetch" /\ hist[j].e = "fetch") =>
            \E k \in (i + 1)..(j - 1) : hist[k].e = "delay"

-----------------------------------------------------------------------------
(* The cleaners applied to raw lyric texts *)

\* What raw lyric texts are made of: the four tag forms, text, white space, the
\* two halves of a tag, and the instrumental notice.
Pieces ==
    {Inst(TagMS), Inst(TagMSf2), Inst(TagMSf3), Inst(TagMSSf2),
     <<"x">>, <<"\n">>, <<" ">>, <<"[", "0", "0", ":">>, <<"0", "0", "]">>, Sentinel}

RawLyrics == {Concat(ps) : ps \in UNION {[1..n -> Pieces] : n \in 0..MaxPieces}}

NoFile == fileExists = FALSE /\ store = <<>> /\ snap = <<>>

InitClean ==
    /\ arg \in RawLyrics /\ res = <<>> /\ ppc = "in"
    /\ IngestIdle /\ NoFile /\ BatchIdle

ApplyCleanLyricsA ==
    /\ ppc = "in"
    /\ res' = cleanLyricsA(arg) /\ ppc' = "cleanLyricsA"
    /\ UNCHANGED <<arg, ingestVars, fileVars, batchVars>>

ApplyCleanLyricsB ==
    /\ ppc = "in"
    /\ res' = cleanLyricsB(arg) /\ ppc' = "cleanLyricsB"
    /\ UNCHANGED <<arg, ingestVars, fileVars, batchVars>>

ApplyCleanLyricsExisting ==
    /\ ppc = "in"
    /\ res' = cleanLyricsExisting(arg) /\ ppc' = "cleanLyricsExisting"
    /\ UNCHANGED <<arg, ingestVars, fileVars, batchVars>>

ApplyCleanLyricsConvert ==
    /\ ppc = "in"
    /\ res' = cleanLyricsConvert(arg) /\ ppc' = "cleanLyricsConvert"
    /\ UNCHANGED <<arg, ingestVars, fileVars, batchVars>>

NextClean ==
    \/ ApplyCleanLyricsA \/ ApplyCleanLyricsB
    \/ ApplyCleanLyricsExisting \/ ApplyCleanLyricsConvert

SpecClean == InitClean /\ [][NextClean]_vars

TimingTags == {TagMS, TagMSf2, TagMSf3, TagMSSf2}

HasTimingTag(s) == \E i \in DOMAIN s : \E t \in TimingTags : MatchesAt(s, i, t)

\* C5: the output of every cleaner holds no timing tag of the forms [mm:ss],
\* [mm:ss.ff], [mm:ss.fff], [mm:ss:ss.ff].
C5_CleanedHasNoTimingTag ==
    ppc \notin {"in", "idle"} => ~HasTimingTag(res)

-----------------------------------------------------------------------------
(* cleanSongTitle applied to titles *)

\* What titles are made of: text, a blank, and the brackets of both widths.
TitleChars == {"a", " ", "(", ")", "FW(", "FW)"}

RawTitles == UNION {[1..n -> TitleChars] : n \in 0..MaxTitleLen}

InitTitle ==
    /\ arg \in RawTitles /\ res = <<>> /\ ppc = "in"
    /\ IngestIdle /\ NoFile /\ BatchIdle

ApplyCleanSongTitle ==
    /\ ppc = "in"
    /\ res' = cleanSongTitle(arg) /\ ppc' = "cleanSongTitle"
    /\ UNCHANGED <<arg, ingestVars, fileVars, batchVars>>

NextTitle == ApplyCleanSongTitle

SpecTitle == InitTitle /\ [][NextTitle]_vars

\* Bracketed suffixes: one group of either width, and a group inside a group.
BracketSuffixes ==
    {<<" ", "(", "b", ")">>, <<" ", "FW(", "b", "FW)">>,
     <<" ", "(", "b", " ", "(", "c", ")", ")">>}

\* Cleaning once more changes nothing.
NormalizeIsIdempotent == ppc = "cleanSongTitle" => cleanSongTitle(res) = res

\* C11: cleanSongTitle is idempotent, and a title followed by a bracketed suffix
\* has the key of the title alone.
C11_NormalizeStripsBracketGroups ==
    ppc = "cleanSongTitle" =>
        /\ cleanSongTitle(res) = res
        /\ \A g \in BracketSuffixes : cleanSongTitle(arg \o g) = res

-----------------------------------------------------------------------------
(* The Ingestor run again over the same page range *)

\* The script is started again once the previous run has printed its report;
\* the catalog answers as before.
Restart ==
    /\ pc = "done" /\ runs < MaxRuns
    /\ runs' = runs + 1
    /\ pc' = "start" /\ page' = firstPage
    /\ songs' = <<>> /\ cur' = NoResult /\ existingSongs' = {}
    /\ totalSongs' = 0 /\ newSongs' = 0 /\ skippedSongs' = 0
    /\ hist' = <<>>
    /\ snap' = store
    /\ UNCHANGED <<variant, lastPage, firstPage, catalog, wfails, fileVars, script, bpc,
                   inputFile, out, skippedLines, wpos, passes, pureVars>>

NextRerun == Next \/ Restart

SpecRerun == Init /\ [][NextRerun]_vars

\* C10: a run that follows a completed run over the same pages appends nothing.
C10_SecondRunAppendsNothing ==
    (runs > 1 /\ pc = "done") => store = snap

-----------------------------------------------------------------------------
(* The batch scripts *)

\* '未找到歌词' and '获取歌词失败'
NotFound == <<"NF">>
FetchFailed == <<"FF">>

\* cleanP_masters of clean_existing_lyrics.js
cleanP_masters(p_masters) ==
    IF p_masters.t = "arr" THEN JArr(FilterStrings(Flat(p_masters.a)))
    ELSE IF p_masters.t = "str" THEN JArr(<<p_masters>>)
    ELSE IF Truthy(p_masters) THEN JArr(<<JStr(p_masters.s)>>)
    ELSE JArr(<<>>)

\* The loop of cleanExistingLyrics stopped by the first line it cannot parse.
RECURSIVE ProcessExistingAbort(_)
ProcessExistingAbort(lines) ==
    IF lines = <<>> THEN [out |-> <<>>, skipped |-> 0]
    ELSE IF ParseThrows(Head(lines)) THEN [out |-> <<>>, skipped |-> 1]
    ELSE LET songData == Parse(Head(lines))
             rest == ProcessExistingAbort(Tail(lines))
         IN [out |-> <<songData>> \o rest.out, skipped |-> rest.skipped]

\* Lines 68-91 of clean_existing_lyrics.js: each line is parsed and cleaned, a
\* line that throws is counted and skipped.
RECURSIVE ProcessExisting(_)
ProcessExisting(lines) ==
    IF lines = <<>> THEN [out |-> <<>>, skipped |-> 0]
    ELSE LET line == Head(lines)
             rest == ProcessExisting(Tail(lines))
         IN IF ParseThrows(line)
            THEN [out |-> rest.out, skipped |-> rest.skipped + 1]
            ELSE LET songData == Parse(line)
                     cleaned ==
                        [songData EXCEPT
                            !.lyrics = IF songData.lyrics # <<>>
                                       THEN cleanLyricsExisting(songData.lyrics)
                                       ELSE songData.lyrics,
                            !.p_masters = cleanP_masters(songData.p_masters)]
                 IN [out |-> <<cleaned>> \o rest.out, skipped |-> rest.skipped]

\* Lines 39-78 of clean_lyrics.js: blank lines, lines that throw, entries without
\* lyrics and instrumentals are left out; p_masters keeps its first element.
RECURSIVE ProcessConvert(_)
ProcessConvert(lines) ==
    IF lines = <<>> THEN <<>>
    ELSE LET line == Head(lines)
             rest == ProcessConvert(Tail(lines))
         IN IF line.k = "blank" \/ ParseThrows(line) THEN rest
            ELSE LET songData == Parse(line)
                     lyrics == songData.lyrics
                     cleanedLyrics == cleanLyricsConvert(lyrics)
                     pm == songData.p_masters
                 IN IF lyrics = <<>> THEN rest      \* songData.get is no function: throws
                    ELSE IF lyrics = NotFound \/ Includes(lyrics, FetchFailed)
                            \/ lyrics = Sentinel THEN rest
                    ELSE IF Trim(cleanedLyrics) = <<>> \/ Includes(cleanedLyrics, Sentinel)
                    THEN rest
                    ELSE <<[song_title |-> songData.song_title,
                            p_masters |->
                               IF pm.t = "arr" /\ pm.a # <<>> THEN JArr(<<pm.a[1]>>)
                               ELSE IF pm.t = "str" /\ pm.s # "" THEN JArr(<<pm>>)
                               ELSE JArr(<<>>),
                            lyrics |-> cleanedLyrics]>> \o rest

\* lines.map(line => JSON.stringify(line, null, 0)).join('\n') + '\n'
OutputContent(records) ==
    IF records = <<>> THEN <<BlankLine>>
    ELSE [i \in 1..Len(records) |-> Stringify(records[i])]

\* Lines 47-96 of clean_existing_lyrics.js: without the file the script returns;
\* otherwise it reads and cleans every line in memory.
ReadExisting ==
    /\ bpc = "start" /\ script = "existing"
    /\ IF ~fileExists
       THEN /\ bpc' = "nofile"
            /\ UNCHANGED <<out, skippedLines>>
       ELSE LET r == ProcessExisting(NonBlank(store))
            IN /\ out' = r.out
               /\ skippedLines' = r.skipped
               /\ bpc' = "write"
    /\ UNCHANGED <<script, inputFile, wpos, passes, snap, wfails, fileVars, variant, pc, page,
                   lastPage, firstPage, songs, cur, existingSongs, totalSongs, newSongs,
                   skippedSongs, hist, catalog, runs, pureVars>>

\* Lines 31-78 of clean_lyrics.js.
ReadConvert ==
    /\ bpc = "start" /\ script = "convert"
    /\ out' = ProcessConvert(inputFile)
    /\ bpc' = "write"
    /\ UNCHANGED <<script, inputFile, skippedLines, wpos, passes, snap, wfails, fileVars,
                   variant, pc, page, lastPage, firstPage, songs, cur, existingSongs,
                   totalSongs, newSongs, skippedSongs, hist, catalog, runs, pureVars>>

\* fs.writeFileSync(LYRICS_FILE_PATH, ...) opens the file itself for writing,
\* which empties it (clean_existing_lyrics.js l.100, clean_lyrics.js l.81).
OpenTruncate ==
    /\ bpc = "write"
    /\ store' = <<>> /\ fileExists' = TRUE
    /\ wpos' = 0
    /\ bpc' = "writing"
    /\ UNCHANGED <<script, inputFile, out, skippedLines, passes, snap, ingestVars, pureVars>>

\* The content reaches the file, all of it or a part at a time; after the last
\* part the script prints its report.
WriteChunk ==
    /\ bpc = "writing"
    /\ \E n \in (wpos + 1)..Len(OutputContent(out)) :
          /\ store' = SubSeq(OutputContent(out), 1, n)
          /\ wpos' = n
          /\ IF n = Len(OutputContent(out))
             THEN bpc' = "done" /\ passes' = passes + 1
             ELSE bpc' = "writing" /\ UNCHANGED passes
    /\ UNCHANGED <<fileExists, script, inputFile, out, skippedLines, snap, ingestVars, pureVars>>

\* writeFileSync throws, at the open or at a write: clean_existing_lyrics.js
\* exits with code 1 (l.107-110), clean_lyrics.js logs the failure (l.87-89).
WriteFails ==
    /\ bpc \in {"write", "writing"} /\ wfails < MaxWriteFailures
    /\ wfails' = wfails + 1
    /\ bpc' = IF script = "existing" THEN "fatal" ELSE "failed"
    /\ UNCHANGED <<variant, pc, page, lastPage, firstPage, songs, cur, existingSongs,
                   totalSongs, newSongs, skippedSongs, hist, catalog, runs, fileVars,
                   script, inputFile, out, skippedLines, wpos, passes, snap, pureVars>>

\* The script is run again on what it left.
RunAgain ==
    /\ bpc = "done" /\ passes < MaxPasses
    /\ bpc' = "start"
    /\ out' = <<>> /\ skippedLines' = 0 /\ wpos' = 0
    /\ snap' = store
    /\ UNCHANGED <<script, inputFile, passes, ingestVars, fileVars, pureVars>>

\* A record of lyrics.jsonl or song_lyrics.jsonl, or a line that is none.
FileLines ==
    {StoredSong,
     RecLine(<<"a", " ", "(", "b", ")">>,
             JArr(<<JArr(<<JArr(<<JStr("P")>>), JStr("Q")>>), JStr("Q")>>),
             Inst(TagMSf2) \o <<"y", "\n", "\n", "\n", "\n", "z", " ">>),
     RecLine(<<"c">>, JStr("P"),
             <<"[", "0", "0", ":">> \o Inst(TagMS) \o <<"0", "0", "]", "x">>),
     RecLine(<<"d">>, JNone, <<>>),
     BadLine, NullLine, BlankLine}

Files == UNION {[1..n -> FileLines] : n \in 0..MaxLines}

InitBatch ==
    /\ script \in {"existing", "convert"}
    /\ bpc = "start"
    /\ \/ /\ script = "existing"
          /\ inputFile = <<>>
          /\ \/ fileExists = FALSE /\ store = <<>>
             \/ fileExists = TRUE /\ store \in Files
       \/ /\ script = "convert"
          /\ inputFile \in Files
          /\ \E f \in InitialStores : fileExists = f.exists /\ store = f.lines
    /\ snap = store
    /\ out = <<>> /\ skippedLines = 0 /\ wpos = 0 /\ passes = 0
    /\ IngestIdle /\ PureIdle

NextBatch ==
    \/ ReadExisting \/ ReadConvert \/ OpenTruncate \/ WriteChunk \/ WriteFails \/ RunAgain

SpecBatch == InitBatch /\ [][NextBatch]_vars

-----------------------------------------------------------------------------
(* Properties of the batch scripts *)

\* C3: from the moment a batch script starts to write, lyrics.jsonl holds either
\* all of what it held before the pass or all of the new content.
C3_StoreIsOldOrNew ==
    bpc \in {"writing", "done", "fatal", "failed"} =>
        (store = snap \/ store = OutputContent(out))

IsRecord(line) == line.k = "rec"

RECURSIVE Titles(_)
Titles(rs) == IF rs = <<>> THEN <<>> ELSE <<Head(rs).song_title>> \o Titles(Tail(rs))

\* C8: once clean_existing_lyrics.js has read a file of n non-blank lines of which
\* m are no record, it holds the n-m records in file order and has counted m
\* skipped lines, wherever the m lines are.
C8_LoadSkipsMalformedLines ==
    (script = "existing" /\ bpc = "write") =>
        LET lines == NonBlank(snap)
            good == SelectSeq(lines, IsRecord)
        IN /\ Len(out) = Len(good)
           /\ Titles(out) = Titles(good)
           /\ skippedLines = Len(lines) - Len(good)

\* A file of three records and one line of invalid text, in second place, was
\* read: three records and one skipped line.
C8_Witness ==
    /\ script = "existing" /\ bpc = "write"
    /\ Len(snap) = 4 /\ snap[2].k = "bad"
    /\ \A i \in {1, 3, 4} : snap[i].k = "rec"
    /\ Len(out) = 3 /\ skippedLines = 1

\* C9: a second pass of clean_existing_lyrics.js leaves the file as the first
\* pass left it.
C9_PassIsIdempotent ==
    (script = "existing" /\ passes > 1 /\ bpc = "done") => store = snap

-----------------------------------------------------------------------------
(* The Deduplicator of the data curation script clean_data.py *)

\* A curated record; song_metadata is the sequence of its <<role, name>> pairs.
SongRecord(title, pm, meta, cl) ==
    [song_title |-> title, p_masters |-> pm, song_metadata |-> meta, cleaned_lyrics |-> cl]

\* The identity key of a record.
KeyOf(r) == cleanSongTitle(r.song_title)

\* a takes the place of the winner so far: more credit roles, then longer text;
\* on a tie the earlier record stays.
Beats(a, w) ==
    \/ Len(a.song_metadata) > Len(w.song_metadata)
    \/ /\ Len(a.song_metadata) = Len(w.song_metadata)
       /\ Len(a.cleaned_lyrics) > Len(w.cleaned_lyrics)

RECURSIVE PickWinner(_, _)
PickWinner(group, w) ==
    IF group = <<>> THEN w
    ELSE PickWinner(Tail(group), IF Beats(Head(group), w) THEN Head(group) ELSE w)

\* The names of xs that are not in acc, appended to acc in their order.
RECURSIVE AddDistinct(_, _)
AddDistinct(acc, xs) ==
    IF xs = <<>> THEN acc
    ELSE AddDistinct(IF Head(xs) \in SeqToSet(acc) THEN acc ELSE Append(acc, Head(xs)),
                     Tail(xs))

\* The producers of the whole group, each once, in first-seen order.
RECURSIVE UnionProducers(_, _)
UnionProducers(group, acc) ==
    IF group = <<>> THEN acc
    ELSE UnionProducers(Tail(group), AddDistinct(acc, Head(group).p_masters))

\* One record for a group: the winner with the producers of the group.
MergeGroup(group) ==
    [PickWinner(Tail(group), Head(group)) EXCEPT !.p_masters = UnionProducers(group, <<>>)]

\* A merge that groups the records by their titles as they are.
RECURSIVE mergeByRawTitle(_)
mergeByRawTitle(records) ==
    IF records = <<>> THEN <<>>
    ELSE LET title == Head(records).song_title
             InGroup(r) == r.song_title = title
             NotInGroup(r) == r.song_title # title
         IN <<MergeGroup(SelectSeq(records, InGroup))>>
            \o mergeByRawTitle(SelectSeq(records, NotInGroup))

\* merge: the records grouped by normalize(title), one merged record per group,
\* the groups in the order of their first members.
RECURSIVE merge(_)
merge(records) ==
    IF records = <<>> THEN <<>>
    ELSE LET key == KeyOf(Head(records))
             InGroup(r) == KeyOf(r) = key
             NotInGroup(r) == KeyOf(r) # key
         IN <<MergeGroup(SelectSeq(records, InGroup))>>
            \o merge(SelectSeq(records, NotInGroup))

\* The records merge is given: titles with and without a bracketed suffix,
\* producers, and text fields of different richness.
RecordPool ==
    {SongRecord(t, pm, f[1], f[2]) :
        t \in {<<"a">>, <<"a", " ", "(", "b", ")">>, <<"c">>},
        pm \in {<<"P">>, <<"Q", "P">>},
        f \in {<< <<>>, <<"x">> >>, << <<>>, <<"x", "y">> >>,
               << << <<"lyricist", "A">> >>, <<"x">> >>}}

RecordLists == UNION {[1..n -> RecordPool] : n \in 0..MaxRecords}

InitDedup ==
    /\ arg \in RecordLists /\ res = <<>> /\ ppc = "in"
    /\ IngestIdle /\ NoFile /\ BatchIdle

ApplyMerge ==
    /\ ppc = "in"
    /\ res' = merge(arg) /\ ppc' = "merge"
    /\ UNCHANGED <<arg, ingestVars, fileVars, batchVars>>

NextDedup == ApplyMerge

SpecDedup == InitDedup /\ [][NextDedup]_vars

\* The positions in arg of the records with the key of r.
GroupOf(r) == {i \in DOMAIN arg : KeyOf(arg[i]) = KeyOf(r)}

\* The record at position i wins its group g.
WinsGroup(i, g) ==
    \A j \in g \ {i} :
        \/ Len(arg[i].song_metadata) > Len(arg[j].song_metadata)
        \/ /\ Len(arg[i].song_metadata) = Len(arg[j].song_metadata)
           /\ \/ Len(arg[i].cleaned_lyrics) > Len(arg[j].cleaned_lyrics)
              \/ /\ Len(arg[i].cleaned_lyrics) = Len(arg[j].cleaned_lyrics)
                 /\ i < j

\* First position of the name x among the producers of the group g, as
\* <<record, index>>.
FirstSeen(x, g) ==
    CHOOSE ik \in UNION {{<<i, k>> : k \in DOMAIN arg[i].p_masters} : i \in g} :
        /\ arg[ik[1]].p_masters[ik[2]] = x
        /\ \A i \in g : \A k \in DOMAIN arg[i].p_masters :
              arg[i].p_masters[k] = x => ~Before(<<i, k>>, ik)

\* pm is the producers of the group g, each once, in first-seen order.
IsOrderedUnion(pm, g) ==
    /\ SeqToSet(pm) = UNION {SeqToSet(arg[i].p_masters) : i \in g}
    /\ \A m, n \in DOMAIN pm :
          m < n => pm[m] # pm[n] /\ Before(FirstSeen(pm[m], g), FirstSeen(pm[n], g))

-----------------------------------------------------------------------------
(* The MetadataExtractor of the data curation script clean_data.py *)

\* The nine role names, a token for each character: zuo ci, zuo qu, bian qu,
\* zhi zuo ren, hun yin, mu dai, mei gong, pei chang zhi zuo ren, jian zhi.
Roles ==
    {<<"zuo", "ci">>, <<"zuo", "qu">>, <<"bian", "qu">>, <<"zhi", "zuo", "ren">>,
     <<"hun", "yin">>, <<"mu", "dai">>, <<"mei", "gong">>,
     <<"pei", "chang", "zhi", "zuo", "ren">>, <<"jian", "zhi">>}

\* The half-width and the full-width colon.
Colons == {":", "FW:"}

StartsWith(line, r) == Len(line) >= Len(r) /\ SubSeq(line, 1, Len(r)) = r

\* What follows the role name r in the line, without the white space before it.
AfterRole(line, r) == TrimStart(SubSeq(line, Len(r) + 1, Len(line)))

\* The line is a credit line of the role r: the role name, a colon, the name.
IsCreditOf(line, r) ==
    /\ StartsWith(line, r)
    /\ AfterRole(line, r) # <<>>
    /\ Head(AfterRole(line, r)) \in Colons

IsCredit(line) == \E r \in Roles : IsCreditOf(line, r)

RoleOf(line) == CHOOSE r \in Roles : IsCreditOf(line, r)

\* The credited name: the rest of the line after the colon.
NameOf(line) == Trim(Tail(AfterRole(line, RoleOf(line))))

\* metadataMap with the first name of a role kept.
PutRoleKeepFirst(meta, role, name) ==
    IF \E i \in DOMAIN meta : meta[i][1] = role THEN meta
    ELSE Append(meta, <<role, name>>)

\* metadataMap[role] = name: a role that is present gets the new name.
PutRole(meta, role, name) ==
    IF \E i \in DOMAIN meta : meta[i][1] = role
    THEN [i \in DOMAIN meta |-> IF meta[i][1] = role THEN <<role, name>> ELSE meta[i]]
    ELSE Append(meta, <<role, name>>)

\* The scan of the lines: credit lines go to the map, the others stay.
RECURSIVE ScanLines(_, _, _)
ScanLines(lines, kept, meta) ==
    IF lines = <<>> THEN [kept |-> kept, meta |-> meta]
    ELSE IF IsCredit(Head(lines))
    THEN ScanLines(Tail(lines), kept, PutRole(meta, RoleOf(Head(lines)), NameOf(Head(lines))))
    ELSE ScanLines(Tail(lines), Append(kept, Head(lines)), meta)

\* extract: the record fields made from a cleaned lyric text.
extract(text) ==
    LET r == ScanLines(SplitLines(text, <<>>), <<>>, <<>>)
    IN [raw_lyrics |-> text, cleaned_lyrics |-> JoinLines(r.kept), song_metadata |-> r.meta]

\* The lines of cleaned lyric texts: credit lines with either colon and with
\* blanks around it, a role given twice, lyric lines, a role name without a
\* colon, a role name that is not at the start, and a role outside the nine.
TextLines ==
    {<<"zuo", "ci", ":", "A">>,
     <<"zuo", "ci", "FW:", "B">>,
     <<"zuo", "qu", " ", ":", " ", "C">>,
     <<"pei", "chang", "zhi", "zuo", "ren", "FW:", "E">>,
     <<"x">>,
     <<"zuo", "ci">>,
     <<"x", "zuo", "ci", ":", "A">>,
     <<"qi", "ta", ":", "D">>}

CleanedTexts == {JoinLines(ls) : ls \in UNION {[1..n -> TextLines] : n \in 0..MaxTextLines}}

NoResultYet == [raw_lyrics |-> <<>>, cleaned_lyrics |-> <<>>, song_metadata |-> <<>>]

InitExtract ==
    /\ arg \in CleanedTexts /\ res = NoResultYet /\ ppc = "in"
    /\ IngestIdle /\ NoFile /\ BatchIdle

ApplyExtract ==
    /\ ppc = "in"
    /\ res' = extract(arg) /\ ppc' = "extract"
    /\ UNCHANGED <<arg, ingestVars, fileVars, batchVars>>

NextExtract == ApplyExtract

SpecExtract == InitExtract /\ [][NextExtract]_vars

\* The lines of `lines` at the positions from i on that are in `keep`.
RECURSIVE LinesAt(_, _, _)
LinesAt(lines, keep, i) ==
    IF i > Len(lines) THEN <<>>
    ELSE (IF i \in keep THEN <<lines[i]>> ELSE <<>>) \o LinesAt(lines, keep, i + 1)

====
